---- MODULE Spec2Model ----
(***************************************************************************)
(* Live transform-and-execute pipeline of the example page                 *)
(* (src/src/pages/examples/ExamplePage.jsx) together with the code editor  *)
(* (src/src/components/CodeViewer.jsx).                                    *)
(*                                                                         *)
(* A source text is a sequence of statements; the regular-expression       *)
(* passes of the rewriter act on each statement by its syntactic form.     *)
(* JavaScript values are records [t, id, origin]: t is the value's kind,   *)
(* id names it, origin tells a primitive, a host-provided object and an    *)
(* object created by executing edited text apart.                          *)
(*                                                                         *)
(* The example components InteractiveFlow, CopyPaste, DynamicLayout and    *)
(* AutoLayout are modelled each on its own canvas, one record variable per *)
(* component holding its state and refs.                                   *)
(***************************************************************************)
EXTENDS Integers, Sequences, FiniteSets, TLC

VARIABLES
    example,        \* the example the route selects (examples.find by slug)
    code,           \* ExamplePage state: the loaded source text
    editedCode,     \* ExamplePage state: the edited text
    previewError,   \* ExamplePage state: the text of the error banner
    memo,           \* the value useMemo holds: {component, error}
    viewerCode,     \* CodeViewer state editedCode: the text the editor shows
    effects,        \* which effects the last commit left to run
    pendingLoads,   \* the examples whose source import is in flight
    crashed,        \* an exception left the render: the page is unmounted
    lastEvent,      \* the last event handled
    memoRan,        \* whether the last event ran the useMemo body
    lastRun,        \* the outcome of the last run of the useMemo body
    lastOkText,     \* the text of the last recompute that yielded a component
    lastOkComponent, \* the component that recompute yielded
    globalObject,   \* the properties executed texts defined on the global object
    interactiveFlow, \* InteractiveFlow state: nodes, edges, selectedNode
    copyPaste,      \* CopyPaste state: nodes, edges and its refs
    dynamicLayout,  \* DynamicLayout state: direction, animated, nodeCounter,
                    \* nodes, edges and its refs
    autoLayout      \* AutoLayout state: direction, animated, nodes, edges and
                    \* the refs of its useAutoLayout hook

\* The state of the page and editor, and the state of the example components.
pageVars == <<example, code, editedCode, previewError, memo, viewerCode, effects,
              pendingLoads, crashed, lastEvent, memoRan, lastRun, lastOkText,
              lastOkComponent, globalObject>>
exampleVars == <<interactiveFlow, copyPaste, dynamicLayout, autoLayout>>
vars == <<pageVars, exampleVars>>

\* What a step of one example component leaves alone.
InteractiveFlow_frame == <<pageVars, copyPaste, dynamicLayout, autoLayout>>
CopyPaste_frame == <<pageVars, interactiveFlow, dynamicLayout, autoLayout>>
DynamicLayout_frame == <<pageVars, interactiveFlow, copyPaste, autoLayout>>
AutoLayout_frame == <<pageVars, interactiveFlow, copyPaste, dynamicLayout>>

(***************************************************************************)
(* JavaScript values                                                       *)
(***************************************************************************)
HostVal(t, id) == [t |-> t, id |-> id, origin |-> "host"]
EditVal(t, id) == [t |-> t, id |-> id, origin |-> "edit"]

Prim(t, id) == [t |-> t, id |-> id, origin |-> "primitive"]

Undefined == Prim("undefined", "undefined")
Null == Prim("null", "null")
Str(s) == Prim("string", s)
Num(s) == Prim("number", s)
Err(msg) == EditVal("Error", msg)
Fn(name) == EditVal("function", name)
Obj(id) == EditVal("object", id)

\* JavaScript truthiness, as used by `||`, `if (...)` and `&&`.
Truthy(v) ==
    /\ v.t \notin {"undefined", "null"}
    /\ ~(v.t = "string" /\ v.id = "")
    /\ ~(v.t = "number" /\ v.id = "0")

\* typeof v === "function"
IsFunction(v) == v.t = "function"

\* error.message in the catch block: reading a property of null or undefined
\* throws a TypeError; an Error carries its message; any other thrown value
\* (a string, a number, a plain object) has no message property.
CanReadProperty(v) == v.t \notin {"undefined", "null"}
MessageOf(v) == IF v.t = "Error" THEN Str(v.id) ELSE Undefined

(***************************************************************************)
(* Capability registry and resolver                                        *)
(***************************************************************************)
React == HostVal("object", "React")
ReactFlow == HostVal("object", "ReactFlow")
dagre == HostVal("object", "dagre")
ReactDomStub == HostVal("object", "{default: null}")

\* The own properties of the moduleMap object literal.
moduleMap ==
    [m \in {"react", "react-dom", "@xyflow/react", "dagre"} |->
        CASE m = "react" -> React
          [] m = "react-dom" -> ReactDomStub
          [] m = "@xyflow/react" -> ReactFlow
          [] m = "dagre" -> dagre]

\* moduleMap is an object literal, so it inherits from Object.prototype.
ObjectPrototype ==
    [p \in {"constructor", "toString", "hasOwnProperty"} |->
        HostVal("function", "Object.prototype." \o p)]

\* obj[name] on an ordinary object: own property, else inherited, else undefined.
GetProperty(own, name) ==
    IF name \in DOMAIN own THEN own[name]
    ELSE IF name \in DOMAIN ObjectPrototype THEN ObjectPrototype[name]
    ELSE Undefined

\* if (moduleMap[moduleName]) return moduleMap[moduleName]; throw new Error(...)
requireFn(moduleName) ==
    LET bound == GetProperty(moduleMap, moduleName)
    IN IF Truthy(bound)
       THEN [ok |-> TRUE, val |-> bound]
       ELSE [ok |-> FALSE, val |-> Err("Cannot find module: " \o moduleName)]

\* The `default` property of a resolved capability.
DefaultOf(v) ==
    CASE v = React -> HostVal("object", "React.default")
      [] v = ReactDomStub -> Null
      [] OTHER -> Undefined

(***************************************************************************)
(* Source texts: sequences of statements                                   *)
(***************************************************************************)
Stmt(k, name, arg, val) ==
    [k |-> k, name |-> name, arg |-> arg, val |-> val, named |-> ""]

\* Forms of the edited text.
ImportStyle(m) == Stmt("importStyle", "", m, Undefined)
ImportMixed(n, b, m) == [Stmt("importMixed", n, m, Undefined) EXCEPT !.named = b]
ImportNamespace(n, m) == Stmt("importNamespace", n, m, Undefined)
ImportNamed(n, m) == Stmt("importNamed", n, m, Undefined)
ImportDefault(n, m) == Stmt("importDefault", n, m, Undefined)
ImportBare(m) == Stmt("importBare", "", m, Undefined)
ExportDefaultFunction(n) == Stmt("exportDefaultFunction", n, "", Fn(n))
ExportDefaultConst(n, v) == Stmt("exportDefaultConst", n, "", v)
ExportDefaultClass(n) == Stmt("exportDefaultClass", n, "", Fn(n))
ExportDefaultIdent(n) == Stmt("exportDefaultIdent", n, "", Undefined)
ExportDecl(n, v) == Stmt("exportDecl", n, "", v)
ExportList(n) == Stmt("exportList", n, "", Undefined)
FunctionDecl(n) == Stmt("function", n, "", Fn(n))
Throw(v) == Stmt("throw", "", "", v)
Markup == Stmt("markup", "", "", Undefined)
MarkupUnbalanced == Stmt("markupUnbalanced", "", "", Undefined)
Comment(c) == Stmt("comment", c, "", Undefined)
\* A line of white space.
Blank == Stmt("blank", "", "", Undefined)

\* Declarations of the language that no pattern of the rewriter matches:
\* import A, * as B from 'm' and export * from 'm'.
ImportDefaultNamespace(n, b, m) ==
    [Stmt("importDefaultNamespace", n, m, Undefined) EXCEPT !.named = b]
ExportAll(m) == Stmt("exportAll", "", m, Undefined)

\* Statements that reach what the function body can reach: the module
\* parameter and the global object.
\* module.exports = v
AssignExports(v) == Stmt("assignExports", "", "", v)
\* window.n = true
GlobalSet(n) == Stmt("globalSet", n, "", Undefined)
\* if (window.n) throw new Error("n is already set")
ThrowIfGlobal(n) == Stmt("throwIfGlobal", n, "", Undefined)

\* The empty string.
EmptyText == << >>

SeqMap(F(_), s) == [i \in DOMAIN s |-> F(s[i])]
ReKind(st, k) == [st EXCEPT !.k = k]
HasKind(s, k) == \E i \in DOMAIN s : s[i].k = k
FirstOfKind(s, k) == CHOOSE i \in DOMAIN s : s[i].k = k /\ \A j \in 1..(i - 1) : s[j].k # k

(***************************************************************************)
(* Declaration rewriter: the import passes 0-5                             *)
(***************************************************************************)
\* Which statements the pattern of each pass matches. The pattern of
\* pass 5, import\s+['"]([^'"]+)['"], also matches a stylesheet import.
Match0(st) == st.k = "importStyle"
Match1(st) == st.k = "importMixed"
Match2(st) == st.k = "importNamespace"
Match3(st) == st.k = "importNamed"
Match4(st) == st.k = "importDefault"
Match5(st) == st.k \in {"importBare", "importStyle"}

\* 0. import "x.css" -> "// CSS import removed"
Pass0(st) == IF Match0(st) THEN Comment("CSS import removed") ELSE st
\* 1. import A, { B } from 'm' ->
\*    const A = require('m').default || require('m'); const {B} = require('m')
Pass1(st) == IF Match1(st) THEN ReKind(st, "constMixed") ELSE st
\* 2. import * as A from 'm' -> const A = require('m')
Pass2(st) == IF Match2(st) THEN ReKind(st, "constNamespace") ELSE st
\* 3. import { A } from 'm' -> const {A} = require('m')
Pass3(st) == IF Match3(st) THEN ReKind(st, "constNamed") ELSE st
\* 4. import A from 'm' -> const A = require('m').default || require('m')
Pass4(st) == IF Match4(st) THEN ReKind(st, "constDefault") ELSE st
\* 5. import 'm' -> "// Side effect import removed"
Pass5(st) == IF Match5(st) THEN Comment("Side effect import removed") ELSE st

RewriteImportsBareFirst(text) ==
    LET p5 == SeqMap(Pass5, text)
        p0 == SeqMap(Pass0, p5)
        p1 == SeqMap(Pass1, p0)
        p2 == SeqMap(Pass2, p1)
        p3 == SeqMap(Pass3, p2)
    IN SeqMap(Pass4, p3)
RewriteImports(text) ==
    LET p0 == SeqMap(Pass0, text)
        p1 == SeqMap(Pass1, p0)
        p2 == SeqMap(Pass2, p1)
        p3 == SeqMap(Pass3, p2)
        p4 == SeqMap(Pass4, p3)
    IN SeqMap(Pass5, p4)

(***************************************************************************)
(* Declaration rewriter: the export passes 6.1-6.7                         *)
(* A pass state is [processedCode, defaultExportName]; the empty name      *)
(* stands for null.                                                        *)
(***************************************************************************)
NoName == ""

\* 6.1-6.3: match the first `export default <kw> Name`, record Name, and turn
\* every such declaration into a plain one. No pass looks at a name an
\* earlier pass recorded.
ExtractDefaultDecl(p, from, to) ==
    IF HasKind(p.processedCode, from)
    THEN [processedCode |->
              SeqMap(LAMBDA st : IF st.k = from THEN ReKind(st, to) ELSE st,
                     p.processedCode),
          defaultExportName |-> p.processedCode[FirstOfKind(p.processedCode, from)].name]
    ELSE p

Pass61(p) == ExtractDefaultDecl(p, "exportDefaultFunction", "function")
Pass62(p) == ExtractDefaultDecl(p, "exportDefaultConst", "const")
Pass63(p) == ExtractDefaultDecl(p, "exportDefaultClass", "class")

\* The last statement of a text that is not white space (0 when none is).
RECURSIVE LastStatement(_, _)
LastStatement(text, i) ==
    IF i = 0 \/ text[i].k # "blank" THEN i ELSE LastStatement(text, i - 1)

\* 6.4: /export\s+default\s+(\w+)\s*;?\s*$/ has no m flag, so it matches only
\* when nothing but white space follows the statement in the text; the
\* replace has the gm flags and removes every such statement (each ends its
\* line).
Pass64Multiline(p) ==
    LET pc == p.processedCode
    IN IF HasKind(pc, "exportDefaultIdent") /\ p.defaultExportName = NoName
       THEN [processedCode |->
                 SeqMap(LAMBDA st : IF st.k = "exportDefaultIdent"
                                    THEN Comment("") ELSE st, pc),
             defaultExportName |-> pc[FirstOfKind(pc, "exportDefaultIdent")].name]
       ELSE p
Pass64(p) ==
    LET pc == p.processedCode
        n == LastStatement(pc, Len(pc))
    IN IF n > 0 /\ pc[n].k = "exportDefaultIdent" /\ p.defaultExportName = NoName
       THEN [processedCode |->
                 SeqMap(LAMBDA st : IF st.k = "exportDefaultIdent"
                                    THEN Comment("") ELSE st, pc),
             defaultExportName |-> pc[n].name]
       ELSE p

\* 6.5: export const|let|var|function|class X -> the plain declaration
Pass65(st) == IF st.k = "exportDecl" THEN ReKind(st, "const") ELSE st
\* 6.6: export { A, B } -> "// Named exports removed"
Pass66(st) == IF st.k = "exportList" THEN Comment("Named exports removed") ELSE st
\* 6.7: a remaining `export default ` prefix is stripped: the expression stays
Pass67(st) == IF st.k = "exportDefaultIdent" THEN ReKind(st, "expr") ELSE st

RewriteExports(importsRewritten) ==
    LET p4 == Pass64(Pass63(Pass62(Pass61(
                  [processedCode |-> importsRewritten, defaultExportName |-> NoName]))))
    IN [processedCode |->
            SeqMap(Pass67, SeqMap(Pass66, SeqMap(Pass65, p4.processedCode))),
        defaultExportName |-> p4.defaultExportName]

Rewrite(editedText) == RewriteExports(RewriteImports(editedText))

(***************************************************************************)
(* Markup compiler (Babel, preset react) and the appended default export   *)
(***************************************************************************)
SyntaxErrorMessage == "Unterminated JSX contents"

\* transform(processedCode, {presets: ["react"]}).code: malformed markup is
\* rejected with a SyntaxError; a markup expression becomes a createElement call.
TransformAcceptsAll(processedCode) ==
    [ok |-> TRUE, thrown |-> Undefined, code |-> processedCode]
Transform(processedCode) ==
    IF HasKind(processedCode, "markupUnbalanced")
    THEN [ok |-> FALSE, thrown |-> Err(SyntaxErrorMessage), code |-> << >>]
    ELSE [ok |-> TRUE, thrown |-> Undefined,
          code |-> SeqMap(LAMBDA st : IF st.k = "markup"
                                      THEN ReKind(st, "createElement") ELSE st,
                          processedCode)]

\* if (defaultExportName) transformedCode +=
\*   "if (typeof Name !== 'undefined') { module.exports.default = Name; }"
AppendNothing(transformedCode, defaultExportName) == transformedCode
AppendDefaultExport(transformedCode, defaultExportName) ==
    IF defaultExportName # NoName
    THEN Append(transformedCode, Stmt("assignDefault", defaultExportName, "", Undefined))
    ELSE transformedCode

(***************************************************************************)
(* Sandbox executor: new Function("React", "require", "module", "exports", *)
(* transformedCode) invoked once on a fresh exports object                 *)
(***************************************************************************)
NumericLiterals == {"0", "42"}

\* Function declarations are hoisted: they are bound before the body runs.
HoistedEnv(body) ==
    [n \in {body[i].name : i \in {j \in DOMAIN body : body[j].k = "function"}} |->
        Fn(n)]

\* const exports = {}; const module = { exports }: the exports object is
\* created by each recompute. The function new Function(...) makes has the
\* global scope as its outer scope, so its body reaches the page's one
\* global object.
FreshScope(body) ==
    [env |-> HoistedEnv(body), moduleExports |-> Obj("module.exports"),
     exportsDefault |-> Undefined, thrown |-> FALSE, thrownVal |-> Undefined,
     requires |-> {}, globals |-> globalObject]

Bind(sc, name, v) == [sc EXCEPT !.env = (name :> v) @@ sc.env]
Raise(sc, v) == [sc EXCEPT !.thrown = TRUE, !.thrownVal = v]
Called(sc, m) ==
    [sc EXCEPT !.requires = sc.requires \cup {[name |-> m, ok |-> requireFn(m).ok]}]

\* The value of a \w+ token used as an expression; unbound identifiers have
\* no value (typeof gives 'undefined', evaluation throws a ReferenceError).
IsBound(sc, name) == name \in DOMAIN sc.env \/ name \in NumericLiterals
TokenValue(sc, name) ==
    IF name \in DOMAIN sc.env THEN sc.env[name] ELSE Num(name)

\* A named member of a resolved capability (destructuring never throws
\* here); the react-dom stub has no field but default.
Member(v, name) ==
    IF v = ReactDomStub THEN Undefined ELSE HostVal("member", v.id \o "." \o name)

\* require('m').default || require('m'), after a first call that returned r
DefaultOrSelf(r, m) ==
    IF Truthy(DefaultOf(r.val)) THEN DefaultOf(r.val) ELSE requireFn(m).val

\* A rewritten import: const ... = require('m')..., where the call returned r.
\* The mixed form binds the default and then destructures the named import.
ExecRequire(sc, st, r) ==
    IF ~r.ok THEN Raise(Called(sc, st.arg), r.val)
    ELSE CASE st.k = "constNamespace" -> Bind(Called(sc, st.arg), st.name, r.val)
           [] st.k = "constNamed" ->
                Bind(Called(sc, st.arg), st.name, Member(r.val, st.name))
           [] st.k = "constMixed" ->
                Bind(Bind(Called(sc, st.arg), st.name, DefaultOrSelf(r, st.arg)),
                     st.named, Member(r.val, st.named))
           [] OTHER -> Bind(Called(sc, st.arg), st.name, DefaultOrSelf(r, st.arg))

\* module.exports.default = v in non-strict code: a TypeError when
\* module.exports is null or undefined, nothing when it is another
\* primitive, else the property is set.
AssignDefault(sc, v) ==
    IF ~CanReadProperty(sc.moduleExports)
    THEN Raise(sc, Err("Cannot set properties of " \o sc.moduleExports.id))
    ELSE IF sc.moduleExports.t \in {"object", "function"}
    THEN [sc EXCEPT !.exportsDefault = v]
    ELSE sc

ExecStmt(sc, st) ==
    CASE st.k \in {"constDefault", "constMixed", "constNamespace", "constNamed"} ->
            ExecRequire(sc, st, requireFn(st.arg))
      [] st.k \in {"const", "class"} -> Bind(sc, st.name, st.val)
      [] st.k = "expr" ->
            IF IsBound(sc, st.name) THEN sc
            ELSE Raise(sc, Err(st.name \o " is not defined"))
      [] st.k = "throw" -> Raise(sc, st.val)
      [] st.k = "assignDefault" ->
            IF IsBound(sc, st.name) /\ TokenValue(sc, st.name).t # "undefined"
            THEN AssignDefault(sc, TokenValue(sc, st.name))
            ELSE sc
      [] st.k = "assignExports" ->
            [sc EXCEPT !.moduleExports = st.val, !.exportsDefault = Undefined]
      [] st.k = "globalSet" -> [sc EXCEPT !.globals = sc.globals \cup {st.name}]
      [] st.k = "throwIfGlobal" ->
            IF st.name \in sc.globals
            THEN Raise(sc, Err(st.name \o " is already set"))
            ELSE sc
      [] OTHER -> sc

RECURSIVE ExecFrom(_, _, _)
ExecFrom(body, i, sc) ==
    IF i > Len(body) \/ sc.thrown THEN sc
    ELSE ExecFrom(body, i + 1, ExecStmt(sc, body[i]))

\* The declarations a function body may not hold: new Function(...) throws a
\* SyntaxError for them, before any statement of the body runs.
ModuleSyntaxKinds ==
    {"importStyle", "importMixed", "importNamespace", "importNamed",
     "importDefault", "importBare", "importDefaultNamespace",
     "exportDefaultFunction", "exportDefaultConst", "exportDefaultClass",
     "exportDefaultIdent", "exportDecl", "exportList", "exportAll"}
HasModuleSyntax(text) == \E i \in DOMAIN text : text[i].k \in ModuleSyntaxKinds
ImportKinds ==
    {"importStyle", "importMixed", "importNamespace", "importNamed",
     "importDefault", "importBare", "importDefaultNamespace"}
\* The message of the SyntaxError, which tells the first such declaration.
FunctionSyntaxErrorMessage(text) ==
    LET first == CHOOSE i \in DOMAIN text :
                     /\ text[i].k \in ModuleSyntaxKinds
                     /\ \A j \in 1..(i - 1) : text[j].k \notin ModuleSyntaxKinds
    IN IF text[first].k \in ImportKinds
       THEN "Cannot use import statement outside a module"
       ELSE "Unexpected token 'export'"

\* const func = new Function("React", "require", "module", "exports", code);
\* func(React, requireFn, module, exports)
Execute(transformedCode) ==
    IF HasModuleSyntax(transformedCode)
    THEN Raise(FreshScope(transformedCode),
               Err(FunctionSyntaxErrorMessage(transformedCode)))
    ELSE ExecFrom(transformedCode, 1, FreshScope(transformedCode))

\* const Component = module.exports.default || module.exports
ExportedValueDefaultOnly(sc) == sc.exportsDefault
ExportedValue(sc) ==
    IF Truthy(sc.exportsDefault) THEN sc.exportsDefault ELSE sc.moduleExports

\* throw new Error("组件必须是一个函数")
NotAFunctionMessage == "component must be a function"

(***************************************************************************)
(* The memoised recompute of ExamplePage                                   *)
(***************************************************************************)
NoComponent == Null

\* catch (error): the component the failing recompute returns.
FallbackLastGood(OriginalComponent) == memo.component
FallbackComponent(OriginalComponent) == OriginalComponent

\* catch (error) { return { component: OriginalComponent, error: error.message } }
\* Reading .message of a thrown null or undefined throws inside the catch
\* block, and that TypeError leaves the recompute.
\* sc tells what the try block did before it threw: the resolver calls made
\* and the global object it left.
Catch(thrownVal, OriginalComponent, stages, sc) ==
    IF CanReadProperty(thrownVal)
    THEN [kind |-> "caught",
          component |-> FallbackComponent(OriginalComponent),
          error |-> MessageOf(thrownVal), stages |-> stages,
          requires |-> sc.requires, globals |-> sc.globals, scope |-> sc]
    ELSE [kind |-> "escaped", component |-> NoComponent, error |-> Undefined,
          stages |-> stages, requires |-> sc.requires, globals |-> sc.globals,
          scope |-> sc]

\* Nothing of the edited text ran: no exports object was made, no name bound.
NotExecuted ==
    [env |-> HoistedEnv(EmptyText), moduleExports |-> Undefined,
     exportsDefault |-> Undefined, thrown |-> FALSE, thrownVal |-> Undefined,
     requires |-> {}, globals |-> globalObject]

AllStages == <<"rewrite", "compile", "execute">>

\* const Component = module.exports.default || module.exports;
\* if (typeof Component === "function") return { component: Component, error: null }
\* throw new Error(...)
\* Reading module.exports.default throws a TypeError when the text set
\* module.exports to null or undefined.
Inspect(sc, OriginalComponent) ==
    IF sc.thrown
    THEN Catch(sc.thrownVal, OriginalComponent, AllStages, sc)
    ELSE IF ~CanReadProperty(sc.moduleExports)
    THEN Catch(Err("Cannot read properties of " \o sc.moduleExports.id),
               OriginalComponent, AllStages, sc)
    ELSE IF IsFunction(ExportedValue(sc))
    THEN [kind |-> "ok", component |-> ExportedValue(sc), error |-> Null,
          stages |-> AllStages, requires |-> sc.requires, globals |-> sc.globals,
          scope |-> sc]
    ELSE Catch(Err(NotAFunctionMessage), OriginalComponent, AllStages, sc)

\* The markup compiler's result tr: its exception ends the recompute, else the
\* compiled text, with the default export appended, is executed.
Compiled(tr, defaultExportName, OriginalComponent) ==
    IF ~tr.ok
    THEN Catch(tr.thrown, OriginalComponent, <<"rewrite", "compile">>, NotExecuted)
    ELSE Inspect(Execute(AppendDefaultExport(tr.code, defaultExportName)),
                 OriginalComponent)

Rewritten(rw, OriginalComponent) ==
    Compiled(Transform(rw.processedCode), rw.defaultExportName, OriginalComponent)

\* try { rewrite; transform; execute; inspect module.exports } catch ...
Pipeline(editedText, OriginalComponent) ==
    Rewritten(Rewrite(editedText), OriginalComponent)

\* The body of useMemo(() => ..., [editedCode, code, OriginalComponent]).
UseMemoBodyAlwaysCompiles(editedText, baseText, OriginalComponent) ==
    Pipeline(editedText, OriginalComponent)
UseMemoBody(editedText, baseText, OriginalComponent) ==
    IF OriginalComponent = NoComponent \/ editedText = EmptyText \/ editedText = baseText
    THEN [kind |-> "baseline", component |-> OriginalComponent, error |-> Null,
          stages |-> << >>, requires |-> {}, globals |-> globalObject,
          scope |-> NotExecuted]
    ELSE Pipeline(editedText, OriginalComponent)

(***************************************************************************)
(* InteractiveFlow (src/unnamed/part_002): nodes are records [id, position] *)
(* in list order, edges records [source, target]; an id is the number its   *)
(* template string prints.                                                  *)
(***************************************************************************)
MaxNodes == 4
MaxEdges == 2

InteractiveFlow_initialNodes ==
    << [id |-> 1, position |-> <<100, 100>>],
       [id |-> 2, position |-> <<300, 100>>],
       [id |-> 3, position |-> <<500, 100>>] >>
InteractiveFlow_initialEdges == << >>

\* { x: Math.random() * 400, y: Math.random() * 400 }
RandomPositions == {<<0, 0>>, <<200, 300>>}

\* addEdge(params, eds) of @xyflow/react: the connection is appended unless
\* an edge with the same source and target exists.
addEdge(params, eds) ==
    IF \E i \in DOMAIN eds :
           eds[i].source = params.source /\ eds[i].target = params.target
    THEN eds
    ELSE Append(eds, [source |-> params.source, target |-> params.target])

\* useNodesState(initialNodes), useEdgesState(initialEdges), useState(null)
InteractiveFlow_Init ==
    interactiveFlow = [nodes |-> InteractiveFlow_initialNodes,
                       edges |-> InteractiveFlow_initialEdges,
                       selectedNode |-> Null]

\* onConnect(params): setEdges((eds) => addEdge(params, eds))
InteractiveFlow_onConnect(params) ==
    /\ Len(interactiveFlow.edges) < MaxEdges
    /\ interactiveFlow' =
           [interactiveFlow EXCEPT !.edges = addEdge(params, interactiveFlow.edges)]
    /\ UNCHANGED InteractiveFlow_frame

\* onNodeClick(event, node): setSelectedNode(node)
InteractiveFlow_onNodeClick(node) ==
    /\ interactiveFlow' = [interactiveFlow EXCEPT !.selectedNode = node]
    /\ UNCHANGED InteractiveFlow_frame

\* addNode: the new node's id is nodes.length + 1.
InteractiveFlow_addNode ==
    /\ Len(interactiveFlow.nodes) < MaxNodes
    /\ \E p \in RandomPositions :
           interactiveFlow' =
               [interactiveFlow EXCEPT
                   !.nodes = Append(@, [id |-> Len(interactiveFlow.nodes) + 1,
                                        position |-> p])]
    /\ UNCHANGED InteractiveFlow_frame

\* deleteSelectedNode: with a selection, the nodes and the edges are filtered
\* by the selected node's id and the selection is cleared.
InteractiveFlow_deleteSelectedNode ==
    /\ interactiveFlow' =
           IF interactiveFlow.selectedNode # Null
           THEN [nodes |-> SelectSeq(interactiveFlow.nodes,
                              LAMBDA node : node.id # interactiveFlow.selectedNode.id),
                 edges |-> SelectSeq(interactiveFlow.edges,
                              LAMBDA edge :
                                  /\ edge.source # interactiveFlow.selectedNode.id
                                  /\ edge.target # interactiveFlow.selectedNode.id),
                 selectedNode |-> Null]
           ELSE interactiveFlow
    /\ UNCHANGED InteractiveFlow_frame

(***************************************************************************)
(* CopyPaste (src/src/pages/examples/ExamplePage.jsx:316-548): nodes are    *)
(* records [id, position, selected], edges records [id, source, target].    *)
(* Date.now() and Math.random() give each generated id a text no earlier id *)
(* has: the n-th generated id carries the number n. copyTime is what the    *)
(* canvas was when the refs were last written: the ids of the selected      *)
(* nodes and the <<source, target>> of every edge.                          *)
(***************************************************************************)
MaxCanvasNodes == 5
MaxSelected == 2

CopyPaste_initialNodes ==
    << [id |-> "1", position |-> <<100, 100>>, selected |-> FALSE],
       [id |-> "2", position |-> <<300, 100>>, selected |-> FALSE],
       [id |-> "3", position |-> <<200, 250>>, selected |-> FALSE] >>
CopyPaste_initialEdges ==
    << [id |-> "e1-2", source |-> "1", target |-> "2"],
       [id |-> "e2-3", source |-> "2", target |-> "3"] >>

PASTE_OFFSET == 50

\* `node_${Date.now()}_${Math.random().toString(36).substr(2, 9)}`
generateNodeId(n) == "node_" \o ToString(n)
\* `edge_${Date.now()}_${Math.random().toString(36).substr(2, 9)}`
generateEdgeId(n) == "edge_" \o ToString(n)

CopyPaste_Init ==
    copyPaste = [nodes |-> CopyPaste_initialNodes,
                 edges |-> CopyPaste_initialEdges,
                 reactFlowInstanceRef |-> FALSE,
                 copiedNodesRef |-> << >>,
                 copiedEdgesRef |-> << >>,
                 generated |-> 0,
                 copyTime |-> [selected |-> {}, edges |-> {}]]

\* nodes.filter((node) => node.selected)
SelectedNodes(nodes) == SelectSeq(nodes, LAMBDA node : node.selected)

\* onInit={(instance) => { reactFlowInstanceRef.current = instance }}
CopyPaste_onInit ==
    /\ ~copyPaste.reactFlowInstanceRef
    /\ copyPaste' = [copyPaste EXCEPT !.reactFlowInstanceRef = TRUE]
    /\ UNCHANGED CopyPaste_frame

\* onNodesChange with a selection change of node i (a click on the node).
CopyPaste_onNodesChange(i) ==
    /\ copyPaste.nodes[i].selected
           \/ Len(SelectedNodes(copyPaste.nodes)) < MaxSelected
    /\ copyPaste' = [copyPaste EXCEPT !.nodes[i].selected = ~@]
    /\ UNCHANGED CopyPaste_frame

\* onEdgesChange with the removal of edge i (the edge deleted on the canvas).
CopyPaste_onEdgesChange(i) ==
    /\ copyPaste' = [copyPaste EXCEPT
                        !.edges = [k \in 1..(Len(@) - 1) |->
                                      IF k < i THEN @[k] ELSE @[k + 1]]]
    /\ UNCHANGED CopyPaste_frame

\* edges.filter((edge) => selectedNodeIds.has(edge.source) && selectedNodeIds.has(edge.target))
SelectedEdges(nodes, edges) ==
    SelectSeq(edges,
        LAMBDA edge :
            /\ \E i \in DOMAIN nodes : nodes[i].selected /\ nodes[i].id = edge.source
            /\ \E i \in DOMAIN nodes : nodes[i].selected /\ nodes[i].id = edge.target)

\* copySelected: the refs are written only when a node is selected.
CopyPaste_copySelected ==
    /\ copyPaste' =
           IF Len(SelectedNodes(copyPaste.nodes)) > 0
           THEN [copyPaste EXCEPT
                    !.copiedNodesRef = SelectedNodes(copyPaste.nodes),
                    !.copiedEdgesRef = SelectedEdges(copyPaste.nodes, copyPaste.edges),
                    !.copyTime =
                        [selected |-> {copyPaste.nodes[i].id : i \in
                                         {k \in DOMAIN copyPaste.nodes :
                                              copyPaste.nodes[k].selected}},
                         edges |-> {<<copyPaste.edges[i].source,
                                      copyPaste.edges[i].target>> :
                                        i \in DOMAIN copyPaste.edges}]]
           ELSE copyPaste
    /\ UNCHANGED CopyPaste_frame

\* nodeIdMap[node.id] = generateNodeId(), in the order of the copied nodes,
\* after `generated` ids were handed out.
NodeIdMap(copiedNodes, generated) ==
    [id \in {copiedNodes[k].id : k \in DOMAIN copiedNodes} |->
        generateNodeId(generated
                       + (CHOOSE k \in DOMAIN copiedNodes : copiedNodes[k].id = id))]

\* newNodes: the copied nodes under their new ids, moved by the offset, unselected.
NewNodes(copiedNodes, nodeIdMap) ==
    [k \in DOMAIN copiedNodes |->
        [id |-> nodeIdMap[copiedNodes[k].id],
         position |-> <<copiedNodes[k].position[1] + PASTE_OFFSET,
                        copiedNodes[k].position[2] + PASTE_OFFSET>>,
         selected |-> FALSE]]

\* newEdges: the copied edges under new ids, between the new nodes.
NewEdgesUnmapped(copiedEdges, nodeIdMap, generated) ==
    [k \in DOMAIN copiedEdges |->
        [id |-> generateEdgeId(generated + k),
         source |-> copiedEdges[k].source,
         target |-> copiedEdges[k].target]]
NewEdges(copiedEdges, nodeIdMap, generated) ==
    [k \in DOMAIN copiedEdges |->
        [id |-> generateEdgeId(generated + k),
         source |-> nodeIdMap[copiedEdges[k].source],
         target |-> nodeIdMap[copiedEdges[k].target]]]

\* The canvas after a paste of the refs' content.
Pasted(c, nodeIdMap) ==
    [c EXCEPT
        !.nodes = @ \o NewNodes(c.copiedNodesRef, nodeIdMap),
        !.edges = @ \o NewEdges(c.copiedEdgesRef, nodeIdMap,
                                c.generated + Len(c.copiedNodesRef)),
        !.generated = @ + Len(c.copiedNodesRef) + Len(c.copiedEdgesRef)]

\* pasteSelected: nothing happens with nothing copied or no flow instance.
CopyPaste_pasteSelected ==
    /\ Len(copyPaste.nodes) + Len(copyPaste.copiedNodesRef) <= MaxCanvasNodes
    /\ copyPaste' =
           IF Len(copyPaste.copiedNodesRef) = 0 \/ ~copyPaste.reactFlowInstanceRef
           THEN copyPaste
           ELSE Pasted(copyPaste,
                       NodeIdMap(copyPaste.copiedNodesRef, copyPaste.generated))
    /\ UNCHANGED CopyPaste_frame

(***************************************************************************)
(* Layout by dagre and its animation (src/src/pages/examples/               *)
(* ExampleLayout.jsx). dagre.layout is taken as a layered drawing: a node's *)
(* rank is the length of the longest path that reaches it, its place in the *)
(* rank the number of earlier nodes of the list with that rank; ranks are   *)
(* ranksep apart and neighbours nodesep, along the axes of the direction.   *)
(* Times are in milliseconds.                                               *)
(***************************************************************************)
nodeWidth == 150
nodeHeight == 50
ranksep == 50
nodesep == 50
duration == 800

LAYOUT_DIRECTIONS == {"TB", "LR", "BT", "RL"}

\* const lerp = (a, b, t) => a + (b - a) * t, with t = Math.min(elapsed / duration, 1)
Progress(elapsed) == IF elapsed < duration THEN elapsed ELSE duration
lerp(a, b, elapsed) == a + ((b - a) * Progress(elapsed)) \div duration

Ids(nodes) == {nodes[i].id : i \in DOMAIN nodes}
Find(nodes, id) == nodes[CHOOSE k \in DOMAIN nodes : nodes[k].id = id]
Max(S) == CHOOSE m \in S : \A x \in S : x <= m

\* The edges as dagreGraph.setEdge(edge.source, edge.target) receives them.
GraphEdges(edges) == {<<edges[i].source, edges[i].target>> : i \in DOMAIN edges}

RECURSIVE Rank(_, _)
Rank(n, E) ==
    IF \A e \in E : e[2] # n THEN 0
    ELSE 1 + Max({Rank(e[1], E) : e \in {x \in E : x[2] = n}})

\* dagreGraph.node(id) after dagre.layout(dagreGraph): the centre of the node.
DagreNode(ids, k, E, direction) ==
    LET rank == Rank(ids[k], E)
        order == Cardinality({j \in 1..(k - 1) : Rank(ids[j], E) = rank})
        last == Max({Rank(ids[j], E) : j \in DOMAIN ids})
    IN  IF direction = "TB"
        THEN <<order * (nodeWidth + nodesep) + nodeWidth \div 2,
               rank * (nodeHeight + ranksep) + nodeHeight \div 2>>
        ELSE IF direction = "BT"
        THEN <<order * (nodeWidth + nodesep) + nodeWidth \div 2,
               (last - rank) * (nodeHeight + ranksep) + nodeHeight \div 2>>
        ELSE IF direction = "LR"
        THEN <<rank * (nodeWidth + ranksep) + nodeWidth \div 2,
               order * (nodeHeight + nodesep) + nodeHeight \div 2>>
        ELSE <<(last - rank) * (nodeWidth + ranksep) + nodeWidth \div 2,
               order * (nodeHeight + nodesep) + nodeHeight \div 2>>

\* The switch on direction in getLayoutedNodes.
TargetPosition(direction) ==
    IF direction = "BT" THEN "bottom"
    ELSE IF direction = "LR" THEN "left"
    ELSE IF direction = "RL" THEN "right" ELSE "top"
SourcePosition(direction) ==
    IF direction = "BT" THEN "top"
    ELSE IF direction = "LR" THEN "right"
    ELSE IF direction = "RL" THEN "left" ELSE "bottom"

\* The node under its layout: { ...node, position, targetPosition, sourcePosition }
Layouted(node, centre, direction) ==
    [node EXCEPT !.position = <<centre[1] - nodeWidth \div 2,
                                centre[2] - nodeHeight \div 2>>,
                 !.targetPosition = TargetPosition(direction),
                 !.sourcePosition = SourcePosition(direction)]

getLayoutedNodes(nodes, edges, direction) ==
    IF Len(nodes) = 0 THEN << >>
    ELSE [k \in DOMAIN nodes |->
             Layouted(nodes[k],
                      DagreNode([j \in DOMAIN nodes |-> nodes[j].id], k,
                                GraphEdges(edges), direction),
                      direction)]

\* The body of setNodes((nds) => nds.map(...)) in the timer callback.
Tween(node, layoutedNodes, startNodes, elapsed) ==
    IF node.id \notin Ids(layoutedNodes) THEN node
    ELSE IF node.id \notin Ids(startNodes) THEN Find(layoutedNodes, node.id)
    ELSE [node EXCEPT
             !.position =
                 <<lerp(Find(startNodes, node.id).position[1],
                        Find(layoutedNodes, node.id).position[1], elapsed),
                   lerp(Find(startNodes, node.id).position[2],
                        Find(layoutedNodes, node.id).position[2], elapsed)>>,
             !.targetPosition = Find(layoutedNodes, node.id).targetPosition,
             !.sourcePosition = Find(layoutedNodes, node.id).sourcePosition]

(***************************************************************************)
(* DynamicLayout (src/src/pages/examples/ExampleLayout.jsx:166-476): nodes  *)
(* are records [id, position, targetPosition, sourcePosition, selected].    *)
(* The state is the one the mount effect leaves. A layout effect runs in    *)
(* the commit of the render that follows a handler, so each action is the   *)
(* handler with the effects of its render. startNodesRef, which only the    *)
(* callback of a running timer reads, is kept empty while no timer runs.    *)
(***************************************************************************)
MaxNodeCounter == 5
MaxLayoutEdges == 3

\* A node as created, before any layout: no handle positions yet.
NewNode(id) ==
    [id |-> id, position |-> <<0, 0>>, targetPosition |-> "undefined",
     sourcePosition |-> "undefined", selected |-> FALSE]

DynamicLayout_initialNodes == <<NewNode(1), NewNode(2), NewNode(3)>>
DynamicLayout_initialEdges ==
    << [source |-> 1, target |-> 2], [source |-> 1, target |-> 3] >>

NoTimer == [running |-> FALSE, layoutedNodes |-> << >>, elapsed |-> 0]

\* nodes.map((n) => n.id).join(",") and edges.map((e) => `${e.source}-${e.target}`).join(",")
NodesIds(nodes) == [k \in DOMAIN nodes |-> nodes[k].id]
EdgesIds(edges) == [k \in DOMAIN edges |-> <<edges[k].source, edges[k].target>>]

DynamicLayout_Init ==
    dynamicLayout =
        [direction |-> "TB", animated |-> TRUE, nodeCounter |-> 4,
         nodes |-> getLayoutedNodes(DynamicLayout_initialNodes,
                                    DynamicLayout_initialEdges, "TB"),
         edges |-> DynamicLayout_initialEdges,
         timerRef |-> NoTimer,
         startNodesRef |-> << >>,
         isLayoutingRef |-> FALSE,
         previousNodesIdsRef |-> NodesIds(DynamicLayout_initialNodes),
         previousEdgesIdsRef |-> EdgesIds(DynamicLayout_initialEdges)]

\* applyLayout past its guards, layoutedNodes being the computed layout: set
\* at once without animation, else the start is recorded and a timer started.
StartLayout(d, targetNodes, layoutedNodes) ==
    IF ~d.animated
    THEN [d EXCEPT !.nodes = layoutedNodes, !.isLayoutingRef = FALSE]
    ELSE [d EXCEPT !.startNodesRef = targetNodes,
                   !.isLayoutingRef = TRUE,
                   !.timerRef = [running |-> TRUE, layoutedNodes |-> layoutedNodes,
                                 elapsed |-> 0]]

\* applyLayout(targetNodes, targetEdges, true)
applyLayout(d, targetNodes, targetEdges) ==
    IF Len(targetNodes) = 0 THEN [d EXCEPT !.timerRef = NoTimer]
    ELSE StartLayout([d EXCEPT !.timerRef = NoTimer], targetNodes,
                     getLayoutedNodes(targetNodes, targetEdges, d.direction))

\* useLayoutEffect(..., [nodes, edges, applyLayout]): the relayout effect.
RelayoutEffect(d) ==
    IF d.isLayoutingRef \/ Len(d.nodes) = 0 THEN d
    ELSE IF NodesIds(d.nodes) # d.previousNodesIdsRef
            \/ EdgesIds(d.edges) # d.previousEdgesIdsRef
    THEN applyLayout([d EXCEPT !.previousNodesIdsRef = NodesIds(d.nodes),
                               !.previousEdgesIdsRef = EdgesIds(d.edges)],
                     d.nodes, d.edges)
    ELSE d

\* useLayoutEffect(..., [direction]), with the nodes and edges of its render.
DirectionEffect(d, nodes, edges) ==
    IF Len(nodes) > 0 /\ ~d.isLayoutingRef THEN applyLayout(d, nodes, edges) ELSE d

\* A render whose nodes, edges or applyLayout changed; a layout set without
\* animation renders once more, and that render's effect finds the ids as
\* they were recorded.
Rendered(d) == RelayoutEffect(RelayoutEffect(d))

\* addNode
DynamicLayout_addNode ==
    /\ dynamicLayout.nodeCounter < MaxNodeCounter
    /\ dynamicLayout' =
           Rendered([dynamicLayout EXCEPT
                        !.nodes = Append(@, NewNode(dynamicLayout.nodeCounter)),
                        !.nodeCounter = @ + 1])
    /\ UNCHANGED DynamicLayout_frame

\* deleteSelectedNodes
DynamicLayout_deleteSelectedNodes ==
    /\ dynamicLayout' =
           IF Len(SelectedNodes(dynamicLayout.nodes)) = 0 THEN dynamicLayout
           ELSE Rendered([dynamicLayout EXCEPT
                    !.nodes = SelectSeq(@, LAMBDA node : ~node.selected),
                    !.edges = SelectSeq(@, LAMBDA edge :
                                  /\ edge.source \notin Ids(SelectedNodes(dynamicLayout.nodes))
                                  /\ edge.target \notin Ids(SelectedNodes(dynamicLayout.nodes)))])
    /\ UNCHANGED DynamicLayout_frame

\* onConnect(params): setEdges((eds) => addEdge(params, eds))
DynamicLayout_onConnect(params) ==
    /\ Len(dynamicLayout.edges) < MaxLayoutEdges
    /\ dynamicLayout' =
           Rendered([dynamicLayout EXCEPT !.edges = addEdge(params, @)])
    /\ UNCHANGED DynamicLayout_frame

\* onNodesChange with the selection changes of a click on node i: the node
\* is selected and every other node is not.
DynamicLayout_onNodesChange(i) ==
    /\ dynamicLayout' =
           Rendered([dynamicLayout EXCEPT
                        !.nodes = [k \in DOMAIN @ |-> [@[k] EXCEPT !.selected = (k = i)]]])
    /\ UNCHANGED DynamicLayout_frame

\* onEdgesChange with the removal of edge i.
DynamicLayout_onEdgesChange(i) ==
    /\ dynamicLayout' =
           Rendered([dynamicLayout EXCEPT
                        !.edges = [k \in 1..(Len(@) - 1) |->
                                      IF k < i THEN @[k] ELSE @[k + 1]]])
    /\ UNCHANGED DynamicLayout_frame

\* handleDirectionChange(newDirection): setDirection; the relayout effect runs
\* for the new applyLayout, then the direction effect.
DynamicLayout_handleDirectionChange(newDirection) ==
    /\ newDirection # dynamicLayout.direction
    /\ dynamicLayout' =
           Rendered(DirectionEffect(
               RelayoutEffect([dynamicLayout EXCEPT !.direction = newDirection]),
               dynamicLayout.nodes, dynamicLayout.edges))
    /\ UNCHANGED DynamicLayout_frame

\* toggleAnimation: setAnimated((prev) => !prev)
DynamicLayout_toggleAnimation ==
    /\ dynamicLayout' = Rendered([dynamicLayout EXCEPT !.animated = ~@])
    /\ UNCHANGED DynamicLayout_frame

\* The timer callback at `elapsed`: every node is moved along its way; at the
\* end of the duration the timer stops and the nodes are set to the layout.
DynamicLayout_timer(elapsed) ==
    /\ dynamicLayout.timerRef.running
    /\ elapsed > dynamicLayout.timerRef.elapsed
    /\ dynamicLayout' =
           IF Progress(elapsed) >= duration
           THEN Rendered([dynamicLayout EXCEPT
                             !.nodes = dynamicLayout.timerRef.layoutedNodes,
                             !.isLayoutingRef = FALSE,
                             !.startNodesRef = << >>,
                             !.timerRef = NoTimer])
           ELSE Rendered([dynamicLayout EXCEPT
                             !.nodes = [k \in DOMAIN @ |->
                                           Tween(@[k],
                                                 dynamicLayout.timerRef.layoutedNodes,
                                                 dynamicLayout.startNodesRef, elapsed)],
                             !.timerRef.elapsed = elapsed])
    /\ UNCHANGED DynamicLayout_frame

(***************************************************************************)
(* AutoLayout and its hook useAutoLayout (src/src/pages/examples/           *)
(* ExamplePage.jsx:551-880). The state is the one the mount effects leave.  *)
(* Each action is a handler with the effects of its render: the hook's      *)
(* first effect copies nodes into currentNodesRef, the second reacts to its *)
(* dependencies [direction, edges, setNodes, options, animated, duration].  *)
(* changes counts the direction changes made.                               *)
(***************************************************************************)
MaxDirectionChanges == 2

AutoLayout_initialNodes ==
    <<NewNode(1), NewNode(2), NewNode(3), NewNode(4), NewNode(5), NewNode(6),
      NewNode(7)>>
AutoLayout_initialEdges ==
    << [source |-> 1, target |-> 2], [source |-> 1, target |-> 3],
       [source |-> 2, target |-> 4], [source |-> 3, target |-> 5],
       [source |-> 4, target |-> 6], [source |-> 5, target |-> 6],
       [source |-> 6, target |-> 7] >>

AutoLayout_getLayoutedNodes(nodes, edges, direction) ==
    [k \in DOMAIN nodes |->
        Layouted(nodes[k],
                 DagreNode([j \in DOMAIN nodes |-> nodes[j].id], k,
                           GraphEdges(edges), direction),
                 direction)]

NoAutoTimer == [running |-> FALSE, targetNodes |-> << >>, elapsed |-> 0]

AutoLayout_Init ==
    autoLayout =
        [direction |-> "TB", animated |-> TRUE,
         nodes |-> AutoLayout_getLayoutedNodes(AutoLayout_initialNodes,
                                               AutoLayout_initialEdges, "TB"),
         edges |-> AutoLayout_initialEdges,
         timerRef |-> NoAutoTimer,
         startNodesRef |-> << >>,
         previousDirectionRef |-> "TB",
         currentNodesRef |-> AutoLayout_getLayoutedNodes(AutoLayout_initialNodes,
                                                         AutoLayout_initialEdges, "TB"),
         changes |-> 0]

\* useEffect(() => { currentNodesRef.current = nodes }, [nodes])
SyncEffect(a) == [a EXCEPT !.currentNodesRef = a.nodes]

\* The cleanup the second effect returned when it started a timer:
\* if (timerRef.current) timerRef.current.stop(). A timer runs only while the
\* last run of the effect has returned this cleanup.
Cleanup(a) == [a EXCEPT !.timerRef = NoAutoTimer, !.startNodesRef = << >>]

\* The second effect past its guards, targetNodes being the computed layout.
StartAutoLayout(a, targetNodes) ==
    IF ~a.animated
    THEN SyncEffect([a EXCEPT !.nodes = targetNodes])
    ELSE [a EXCEPT !.startNodesRef = a.currentNodesRef,
                   !.timerRef = [running |-> TRUE, targetNodes |-> targetNodes,
                                 elapsed |-> 0]]

\* The second effect of useAutoLayout in a render one of whose dependencies
\* changed: the cleanup of its last run, then its body.
useAutoLayout(a) ==
    IF a.previousDirectionRef = a.direction THEN Cleanup(a)
    ELSE IF Len(a.currentNodesRef) = 0
    THEN [Cleanup(a) EXCEPT !.previousDirectionRef = a.direction]
    ELSE StartAutoLayout([Cleanup(a) EXCEPT !.previousDirectionRef = a.direction],
                         AutoLayout_getLayoutedNodes(a.currentNodesRef, a.edges,
                                                     a.direction))

\* handleDirectionChange(newDirection): setDirection(newDirection)
AutoLayout_handleDirectionChange(newDirection) ==
    /\ autoLayout.changes < MaxDirectionChanges
    /\ newDirection # autoLayout.direction
    /\ autoLayout' = useAutoLayout([autoLayout EXCEPT !.direction = newDirection,
                                                      !.changes = @ + 1])
    /\ UNCHANGED AutoLayout_frame

\* toggleAnimation: setAnimated((prev) => !prev)
AutoLayout_toggleAnimation ==
    /\ autoLayout' = useAutoLayout([autoLayout EXCEPT !.animated = ~@])
    /\ UNCHANGED AutoLayout_frame

\* onEdgesChange with the removal of edge i.
AutoLayout_onEdgesChange(i) ==
    /\ autoLayout' =
           useAutoLayout([autoLayout EXCEPT
                             !.edges = [k \in 1..(Len(@) - 1) |->
                                           IF k < i THEN @[k] ELSE @[k + 1]]])
    /\ UNCHANGED AutoLayout_frame

\* The body of setNodes((nds) => nds.map(...)) in the hook's timer callback.
AutoTween(node, targetNodes, startNodes, elapsed) ==
    IF node.id \notin Ids(targetNodes) \/ node.id \notin Ids(startNodes) THEN node
    ELSE [node EXCEPT
             !.position =
                 <<lerp(Find(startNodes, node.id).position[1],
                        Find(targetNodes, node.id).position[1], elapsed),
                   lerp(Find(startNodes, node.id).position[2],
                        Find(targetNodes, node.id).position[2], elapsed)>>,
             !.targetPosition = Find(targetNodes, node.id).targetPosition,
             !.sourcePosition = Find(targetNodes, node.id).sourcePosition]

\* The timer callback at `elapsed`.
AutoLayout_timer(elapsed) ==
    /\ autoLayout.timerRef.running
    /\ elapsed > autoLayout.timerRef.elapsed
    /\ autoLayout' =
           IF Progress(elapsed) >= duration
           THEN SyncEffect([autoLayout EXCEPT
                               !.nodes = autoLayout.timerRef.targetNodes,
                               !.startNodesRef = << >>,
                               !.timerRef = NoAutoTimer])
           ELSE SyncEffect([autoLayout EXCEPT
                               !.nodes = [k \in DOMAIN @ |->
                                             AutoTween(@[k],
                                                       autoLayout.timerRef.targetNodes,
                                                       autoLayout.startNodesRef,
                                                       elapsed)],
                               !.timerRef.elapsed = elapsed])
    /\ UNCHANGED AutoLayout_frame

(***************************************************************************)
(* Examples, their sources and the texts typed into the editor             *)
(***************************************************************************)
Examples == {"BasicNodes", "DagreLayout"}

\* const componentMap = { BasicNodes, CustomNodes, InteractiveFlow, DagreLayout,
\* NodePositionAnimation, HelperLines }
RegisteredExamples ==
    {"BasicNodes", "CustomNodes", "InteractiveFlow", "DagreLayout",
     "NodePositionAnimation", "HelperLines"}

\* componentMap[example.component]: the component bundled with the page.
componentMap == [e \in RegisteredExamples |-> HostVal("function", e)]

\* import(`./${example.component}.jsx?raw`): the example's own source.
Source ==
    [e \in RegisteredExamples |->
        CASE e = "BasicNodes" ->
               <<ImportNamed("useCallback", "react"),
                 ImportNamed("ReactFlow", "@xyflow/react"),
                 ImportStyle("@xyflow/react/dist/style.css"),
                 FunctionDecl("BasicNodes"), Markup,
                 ExportDefaultIdent("BasicNodes")>>
          [] e = "CustomNodes" ->
               <<ImportNamed("useCallback", "react"),
                 ImportNamed("ReactFlow", "@xyflow/react"),
                 ImportStyle("@xyflow/react/dist/style.css"),
                 FunctionDecl("CustomNodes"), Markup,
                 ExportDefaultIdent("CustomNodes")>>
          [] e = "InteractiveFlow" ->
               <<ImportNamed("useCallback", "react"),
                 ImportNamed("ReactFlow", "@xyflow/react"),
                 ImportStyle("@xyflow/react/dist/style.css"),
                 FunctionDecl("InteractiveFlow"), Markup,
                 ExportDefaultIdent("InteractiveFlow")>>
          [] e = "DagreLayout" ->
               <<ImportNamed("useLayoutEffect", "react"),
                 ImportNamed("ReactFlow", "@xyflow/react"),
                 ImportDefault("dagre", "dagre"),
                 ImportStyle("@xyflow/react/dist/style.css"),
                 FunctionDecl("DagreLayout"), Markup,
                 ExportDefaultIdent("DagreLayout")>>
          [] e = "NodePositionAnimation" ->
               <<ImportNamed("useState", "react"),
                 ImportNamed("ReactFlow", "@xyflow/react"),
                 ImportNamed("timer", "d3-timer"),
                 ImportStyle("@xyflow/react/dist/style.css"),
                 FunctionDecl("NodePositionAnimation"), Markup,
                 ExportDefaultIdent("NodePositionAnimation")>>
          [] e = "HelperLines" ->
               <<ImportNamed("useState", "react"),
                 ImportNamed("ReactFlow", "@xyflow/react"),
                 ImportStyle("@xyflow/react/dist/style.css"),
                 FunctionDecl("HelperLines"), FunctionDecl("HelperLinesExample"),
                 Markup, ExportDefaultIdent("HelperLinesExample")>>]

\* const errorMsg = "// 无法加载代码，请检查文件是否存在"
LoadErrorText == <<Comment("load failed")>>

\* Module names an edited text may import.
ImportedNames == {"react", "react-dom", "nonexistent-module", "constructor"}

\* Bodies an edited text may have.
EditBodies ==
    { <<ExportDefaultFunction("Widget")>>,
      <<FunctionDecl("App"), Markup, ExportDefaultIdent("App")>>,
      <<MarkupUnbalanced, ExportDefaultFunction("Widget")>>,
      <<Throw(Err("boom"))>>,
      <<Throw(Err(""))>>,
      <<Throw(Str("boom"))>>,
      <<Throw(Null)>>,
      <<Throw(Undefined)>>,
      <<ExportDefaultIdent("42")>> }

\* The texts the editor may deliver: the bodies, a component behind each
\* import, each example's own source, and the empty text.
EditTexts ==
    EditBodies
    \cup { <<ImportDefault("X", m), ExportDefaultFunction("Widget")>> : m \in ImportedNames }
    \cup { Source[e] : e \in Examples }
    \cup { EmptyText }

(***************************************************************************)
(* The page: state after construction, render, effects and handlers        *)
(***************************************************************************)
\* <CodeViewer code={editedCode || code} .../>
ViewerProp(edited, base) == IF edited # EmptyText THEN edited ELSE base

\* {showCode && code && (<CodeViewer .../>)}: the editor exists once a text is loaded.
Mounted(base) == base # EmptyText

NoEffects == [load |-> FALSE, error |-> FALSE, viewer |-> FALSE]
EffectsPending == effects.load \/ effects.error \/ effects.viewer

\* React compares each dependency of useMemo with the one of the last render.
DepsAlwaysChanged(newDeps, oldDeps) == TRUE
DepsChanged(newDeps, oldDeps) == newDeps # oldDeps

\* What the preview shows: <DynamicComponent />, and the banner when
\* previewError is truthy.
Displayed == IF crashed THEN NoComponent ELSE memo.component
BannerShown == ~crashed /\ Truthy(previewError)

Init ==
    /\ example \in Examples
    /\ code = EmptyText
    /\ editedCode = EmptyText
    /\ previewError = Null
    /\ memo = [component |-> componentMap[example], error |-> Null]
    /\ viewerCode = EmptyText
    /\ effects = [load |-> TRUE, error |-> TRUE, viewer |-> FALSE]
    /\ pendingLoads = {}
    /\ crashed = FALSE
    /\ lastEvent = "mount"
    /\ memoRan = TRUE
    /\ globalObject = {}
    /\ InteractiveFlow_Init
    /\ CopyPaste_Init
    /\ DynamicLayout_Init
    /\ AutoLayout_Init
    /\ lastRun = UseMemoBody(EmptyText, EmptyText, componentMap[example])
    /\ lastOkText = EmptyText
    /\ lastOkComponent = NoComponent

\* The events that begin an editing session on a new baseline.
SessionStarts == {"select", "load", "loadFailed"}

\* useMemo(..., [editedCode, code, OriginalComponent]) in a render with the
\* state (ex2, code2, edited2): the body runs when a dependency changed.
UseMemo(ex2, code2, edited2) ==
    IF DepsChanged(<<edited2, code2, componentMap[ex2]>>,
                   <<editedCode, code, componentMap[example]>>)
    THEN [ran |-> TRUE, result |-> UseMemoBody(edited2, code2, componentMap[ex2])]
    ELSE [ran |-> FALSE, result |-> lastRun]

\* The commit of a render in which useMemo gave m: an exception that left the
\* body unmounts the page; else the effects whose dependencies changed are
\* left to run. vc2 is the editor's text after the event.
Commit(ex2, code2, edited2, vc2, event, m) ==
    /\ example' = ex2
    /\ code' = code2
    /\ editedCode' = edited2
    /\ crashed' = (m.ran /\ m.result.kind = "escaped")
    /\ memo' = IF m.ran /\ m.result.kind # "escaped"
               THEN [component |-> m.result.component, error |-> m.result.error]
               ELSE memo
    /\ viewerCode' = IF ~Mounted(code) /\ Mounted(code2)
                     THEN ViewerProp(edited2, code2) ELSE vc2
    /\ effects' = IF crashed' THEN NoEffects
                  ELSE [load |-> ex2 # example,
                        error |-> memo'.error # memo.error,
                        viewer |-> /\ Mounted(code2)
                                   /\ ViewerProp(edited2, code2)
                                          # ViewerProp(editedCode, code)]
    /\ lastEvent' = event
    /\ memoRan' = m.ran
    /\ lastRun' = m.result
    /\ lastOkText' = IF m.ran /\ m.result.kind = "ok" THEN edited2
                      ELSE IF event \in SessionStarts THEN EmptyText
                      ELSE lastOkText
    /\ lastOkComponent' = IF m.ran /\ m.result.kind = "ok" THEN m.result.component
                          ELSE IF event \in SessionStarts THEN NoComponent
                          ELSE lastOkComponent
    /\ globalObject' = IF m.ran THEN m.result.globals ELSE globalObject
    /\ UNCHANGED <<previewError, exampleVars>>

\* One render of ExamplePage after an event set the state to (ex2, code2, edited2).
Render(ex2, code2, edited2, vc2, event) ==
    Commit(ex2, code2, edited2, vc2, event, UseMemo(ex2, code2, edited2))

Idle == ~crashed /\ ~EffectsPending

\* The route selects another example: example and OriginalComponent change,
\* the texts stay until the new source is loaded.
SelectExample(e) ==
    /\ Idle
    /\ e # example
    /\ Render(e, code, editedCode, viewerCode, "select")
    /\ UNCHANGED pendingLoads

\* The effects of the last commit: the source import is started when the
\* example changed, setPreviewError(compileError), and in CodeViewer
\* setEditedCode(code) when its code prop changed.
RunEffects ==
    /\ ~crashed
    /\ EffectsPending
    /\ pendingLoads' = IF effects.load THEN pendingLoads \cup {example} ELSE pendingLoads
    /\ previewError' = IF effects.error THEN memo.error ELSE previewError
    /\ viewerCode' = IF effects.viewer THEN ViewerProp(editedCode, code) ELSE viewerCode
    /\ effects' = NoEffects
    /\ UNCHANGED <<example, code, editedCode, memo, crashed, lastEvent, memoRan,
                   lastRun, lastOkText, lastOkComponent, globalObject, exampleVars>>

\* .then((module) => { setCode(module.default); setEditedCode(module.default) })
LoadResolve(e) ==
    /\ Idle
    /\ e \in pendingLoads
    /\ pendingLoads' = pendingLoads \ {e}
    /\ Render(example, Source[e], Source[e], viewerCode, "load")

\* .catch((err) => { setCode(errorMsg); setEditedCode(errorMsg) })
LoadReject(e) ==
    /\ Idle
    /\ e \in pendingLoads
    /\ pendingLoads' = pendingLoads \ {e}
    /\ Render(example, LoadErrorText, LoadErrorText, viewerCode, "loadFailed")

\* CodeViewer.handleCodeChange(newCode): setEditedCode(newCode || "") in the
\* editor and onCodeChange(newCode || ""), which is the page's setEditedCode.
handleCodeChange(newCode) ==
    /\ Idle
    /\ Mounted(code)
    /\ Render(example, code, newCode, newCode, "edit")
    /\ UNCHANGED pendingLoads

\* CodeViewer.handleReset: setEditedCode(code); onCodeChange(code), where code
\* is the editor's prop, editedCode || code of the page.
handleReset ==
    /\ Idle
    /\ Mounted(code)
    /\ Render(example, code, ViewerProp(editedCode, code),
              ViewerProp(editedCode, code), "reset")
    /\ UNCHANGED pendingLoads

Next ==
    \/ \E e \in Examples : SelectExample(e)
    \/ RunEffects
    \/ \E e \in Examples : LoadResolve(e)
    \/ \E e \in Examples : LoadReject(e)
    \/ \E newCode \in EditTexts : handleCodeChange(newCode)
    \/ handleReset

Spec == Init /\ [][Next]_vars

(***************************************************************************)
(* The editing session of one example over a table of texts: one text for  *)
(* each declaration form of the rewriter, alone and combined, and texts    *)
(* that reach the module parameter and the global object.                  *)
(***************************************************************************)
RegistryNames == {"react", "react-dom", "@xyflow/react", "dagre"}

\* One import of each form from each module of the registry, before a component.
ImportTexts ==
    UNION { { <<ImportDefault("D", m), ExportDefaultFunction("Widget")>>,
              <<ImportMixed("D", "a", m), ExportDefaultFunction("Widget")>>,
              <<ImportNamespace("NS", m), ExportDefaultFunction("Widget")>>,
              <<ImportNamed("a", m), ExportDefaultFunction("Widget")>> }
            : m \in RegistryNames }

\* Every form the rewriter has a rule for, in one text, in two orders.
AllFormsText ==
    <<ImportStyle("./style.css"), ImportMixed("R", "useState", "react"),
      ImportNamespace("NS", "@xyflow/react"), ImportNamed("useMemo", "react"),
      ImportDefault("dagre", "dagre"), ImportBare("./setup"),
      ExportDecl("helper", Num("1")), ExportList("helper"),
      ExportDefaultFunction("Widget")>>
Reverse(text) == [i \in DOMAIN text |-> text[Len(text) + 1 - i]]

ExportTexts ==
    { <<ExportDefaultFunction("Widget")>>,
      <<ExportDefaultClass("Panel")>>,
      <<ExportDefaultConst("Card", Fn("Card"))>>,
      <<ExportDefaultConst("Answer", Num("42"))>>,
      <<ImportNamed("useState", "react"), ExportDefaultFunction("Widget"), Markup>>,
      <<ExportDefaultFunction("A"), ExportDefaultClass("B")>>,
      <<ExportDefaultFunction("A"), ExportDefaultConst("K", Fn("K"))>>,
      <<FunctionDecl("C"), ExportDefaultFunction("A"), ExportDefaultIdent("C")>>,
      <<FunctionDecl("App"), Markup, ExportDefaultIdent("App")>>,
      <<FunctionDecl("App"), ExportDefaultIdent("App"), Blank>>,
      <<FunctionDecl("App"), ExportDefaultIdent("App"), FunctionDecl("Helper")>>,
      <<ExportDefaultIdent("42")>>,
      <<ImportDefaultNamespace("R", "NS", "react"), ExportDefaultFunction("Widget")>>,
      <<ExportDefaultFunction("Widget"), ExportAll("react")>> }

ScopeTexts ==
    { <<FunctionDecl("Helper")>>,
      <<AssignExports(Fn("Direct"))>>,
      <<AssignExports(Fn("Direct")), ExportDefaultIdent("0")>>,
      <<AssignExports(Null)>>,
      <<Throw(Err("boom"))>>,
      <<ImportDefault("X", "nonexistent-module"), Throw(Err("boom")), MarkupUnbalanced>>,
      <<MarkupUnbalanced, ExportDefaultFunction("Widget")>>,
      <<ThrowIfGlobal("seen"), GlobalSet("seen"), ExportDefaultFunction("Widget")>> }

TableTexts ==
    ImportTexts \cup {AllFormsText, Reverse(AllFormsText)} \cup ExportTexts
        \cup ScopeTexts

TableNext ==
    \/ RunEffects
    \/ \E e \in Examples : LoadResolve(e)
    \/ \E newCode \in TableTexts : handleCodeChange(newCode)

TableSpec == Init /\ [][TableNext]_vars

(***************************************************************************)
(* The registered examples, each edited below its own import lines         *)
(***************************************************************************)
\* The import lines of a text.
ImportLines(text) == SelectSeq(text, LAMBDA st : st.k \in ImportKinds)

\* What the user types below the import lines: a component and its export.
RegisteredBodies ==
    { <<ExportDefaultFunction("Widget")>>,
      <<FunctionDecl("App"), Markup, ExportDefaultIdent("App")>> }

RegisteredNext ==
    \/ \E e \in RegisteredExamples : SelectExample(e)
    \/ RunEffects
    \/ \E e \in RegisteredExamples : LoadResolve(e)
    \/ \E body \in RegisteredBodies : handleCodeChange(ImportLines(code) \o body)

RegisteredSpec == Init /\ [][RegisteredNext]_vars

(***************************************************************************)
(* The example components, each on its own canvas                          *)
(***************************************************************************)
\* The canvases start while the page shows its first example.
CanvasInit == Init /\ example = "BasicNodes"

InteractiveFlowNext ==
    \/ \E i, j \in DOMAIN interactiveFlow.nodes :
           /\ i # j
           /\ InteractiveFlow_onConnect([source |-> interactiveFlow.nodes[i].id,
                                         target |-> interactiveFlow.nodes[j].id])
    \/ \E i \in DOMAIN interactiveFlow.nodes :
           InteractiveFlow_onNodeClick(interactiveFlow.nodes[i])
    \/ InteractiveFlow_addNode
    \/ InteractiveFlow_deleteSelectedNode

InteractiveFlowSpec == CanvasInit /\ [][InteractiveFlowNext]_vars

\* The edges the user deletes on the canvas.
CopyPaste_DeletedEdges == {"e1-2"}

CopyPasteNext ==
    \/ CopyPaste_onInit
    \/ \E i \in DOMAIN copyPaste.nodes : CopyPaste_onNodesChange(i)
    \/ \E i \in DOMAIN copyPaste.edges :
           /\ copyPaste.edges[i].id \in CopyPaste_DeletedEdges
           /\ CopyPaste_onEdgesChange(i)
    \/ CopyPaste_copySelected
    \/ CopyPaste_pasteSelected

CopyPasteSpec == CanvasInit /\ [][CopyPasteNext]_vars

\* The times at which the timer's callback is seen to run.
ElapsedSamples == {400, 800}

\* The connections the user draws, each from an older node to a newer one,
\* the nodes the user clicks, the edges the user deletes and the directions
\* the user picks.
DynamicLayout_Connections == {<<2, 3>>, <<3, 4>>}
DynamicLayout_Clicked == {3, 4}
DynamicLayout_DeletedEdges == {<<1, 3>>}
DirectionSamples == {"TB", "LR"}

DynamicLayoutNext ==
    \/ DynamicLayout_addNode
    \/ DynamicLayout_deleteSelectedNodes
    \/ \E c \in DynamicLayout_Connections :
           /\ {c[1], c[2]} \subseteq Ids(dynamicLayout.nodes)
           /\ DynamicLayout_onConnect([source |-> c[1], target |-> c[2]])
    \/ \E i \in DOMAIN dynamicLayout.nodes :
           /\ dynamicLayout.nodes[i].id \in DynamicLayout_Clicked
           /\ DynamicLayout_onNodesChange(i)
    \/ \E i \in DOMAIN dynamicLayout.edges :
           /\ <<dynamicLayout.edges[i].source, dynamicLayout.edges[i].target>>
                  \in DynamicLayout_DeletedEdges
           /\ DynamicLayout_onEdgesChange(i)
    \/ \E newDirection \in DirectionSamples :
           DynamicLayout_handleDirectionChange(newDirection)
    \/ DynamicLayout_toggleAnimation
    \/ \E elapsed \in ElapsedSamples : DynamicLayout_timer(elapsed)

DynamicLayoutSpec == CanvasInit /\ [][DynamicLayoutNext]_vars

\* The edges the user deletes on the AutoLayout canvas.
AutoLayout_DeletedEdges == {<<1, 3>>, <<6, 7>>}

AutoLayoutNext ==
    \/ \E newDirection \in LAYOUT_DIRECTIONS :
           AutoLayout_handleDirectionChange(newDirection)
    \/ AutoLayout_toggleAnimation
    \/ \E i \in DOMAIN autoLayout.edges :
           /\ <<autoLayout.edges[i].source, autoLayout.edges[i].target>>
                  \in AutoLayout_DeletedEdges
           /\ AutoLayout_onEdgesChange(i)
    \/ \E elapsed \in ElapsedSamples : AutoLayout_timer(elapsed)

AutoLayoutSpec == CanvasInit /\ [][AutoLayoutNext]_vars

(***************************************************************************)
(* Properties                                                              *)
(***************************************************************************)
OriginalComponent == componentMap[example]
AfterEdit == lastEvent = "edit"
Failed == lastRun.kind \in {"caught", "escaped"}
HadSuccess == lastOkComponent # NoComponent

C2_ResetRestoresBaseline ==
    lastEvent = "reset" =>
        /\ editedCode = code
        /\ Displayed = OriginalComponent
        /\ ~EffectsPending => previewError = Null

\* C3: the displayed component is always the originally loaded component or
\* one a successful compile-and-execute returned; the display is never
\* without a component.
C3_DisplayedEverCompiled ==
    /\ Displayed # NoComponent
    /\ Displayed \in {OriginalComponent, lastOkComponent}

\* C4: with no successful edit before it, a failing edit leaves the
\* originally loaded component on display.
C4_FirstFailureShowsOriginal ==
    (AfterEdit /\ Failed /\ ~HadSuccess) => Displayed = OriginalComponent

\* C5: no exception leaves the recompute: every failure ends with the page
\* mounted, showing the fallback component.
C5_NoExceptionEscapes ==
    Failed => (~crashed /\ lastRun.kind = "caught" /\ Displayed = OriginalComponent)

\* C6: once the effects have run, every caught failure shows a banner with a
\* non-empty diagnostic.
C6_FailureHasDiagnostic ==
    (lastRun.kind = "caught" /\ ~crashed /\ ~EffectsPending) =>
        (BannerShown /\ previewError.t = "string" /\ previewError.id # "")

\* C7: an event that leaves the edited text, the baseline text and the
\* baseline component as they were (a text change to the same text among
\* them) runs no recompute and leaves the memoised component, the diagnostic
\* and the pending effects unchanged.
C7_UnchangedInputsNoRecompute ==
    [][(Idle /\ editedCode' = editedCode /\ code' = code
             /\ componentMap[example'] = componentMap[example])
        => (~memoRan' /\ memo' = memo /\ previewError' = previewError
                      /\ ~crashed' /\ ~EffectsPending')]_vars

C7_Witness == AfterEdit /\ ~memoRan /\ lastRun.kind = "caught" /\ BannerShown

\* C8 as stated: a text change to the text that was last successfully
\* compiled runs no recompute.
C8_NoRecomputeOfLastCompiled ==
    [][(Idle /\ lastEvent' = "edit" /\ lastOkText # EmptyText
             /\ editedCode' = lastOkText) => ~memoRan']_vars

\* C8 as amended: a text change runs the recompute exactly when the new text
\* differs from the current edited text; the recompute returns the baseline
\* component without running a stage when the new text is empty or the
\* baseline text, and else runs rewrite, markup compile, execute in this
\* order, stopping after the compile stage when the compiler rejects the text.
C8_RecomputeOnChange ==
    [][(Idle /\ lastEvent' = "edit") =>
        /\ memoRan' <=> editedCode' # editedCode
        /\ memoRan' =>
             lastRun'.stages =
                IF editedCode' = EmptyText \/ editedCode' = code THEN << >>
                ELSE IF HasKind(editedCode', "markupUnbalanced")
                THEN <<"rewrite", "compile">>
                ELSE <<"rewrite", "compile", "execute">>]_vars

C8_Witness ==
    /\ AfterEdit /\ memoRan /\ lastRun.kind = "ok"
    /\ lastRun.stages = <<"rewrite", "compile", "execute">>

\* C9: a resolver call returns a capability exactly when the requested name
\* is a name of the registry.
C9_ResolverClosed ==
    \A c \in lastRun.requires : c.ok <=> c.name \in DOMAIN moduleMap

\* C10: an edited text whose first statement imports a name absent from the
\* registry fails with the diagnostic "Cannot find module: <name>" and the
\* fallback component on display.
C10_AbsentModuleFails ==
    (/\ AfterEdit /\ editedCode # EmptyText /\ editedCode # code
     /\ editedCode[1].k = "importDefault"
     /\ editedCode[1].arg \notin DOMAIN moduleMap) =>
        /\ lastRun.kind = "caught"
        /\ memo.error = Str("Cannot find module: " \o editedCode[1].arg)
        /\ Displayed = OriginalComponent

\* The recompute of the last edit ran the text to its end: the exports slot
\* was inspected.
Inspected ==
    /\ AfterEdit /\ lastRun.stages = AllStages
    /\ ~lastRun.scope.thrown /\ CanReadProperty(lastRun.scope.moduleExports)

DefaultDeclKinds == {"exportDefaultFunction", "exportDefaultConst", "exportDefaultClass"}
DefaultForms(text) ==
    {i \in DOMAIN text : text[i].k \in DefaultDeclKinds \cup {"exportDefaultIdent"}}
PlainKind(k) ==
    CASE k = "exportDefaultFunction" -> "function"
      [] k = "exportDefaultConst" -> "const"
      [] k = "exportDefaultClass" -> "class"

\* C12: for an edited text whose one default export is a function, const or
\* class declaration of Name, the rewriter records Name and leaves the plain
\* declaration, the text to execute ends with the guarded assignment of Name
\* to the default field of the exports slot, and after execution that field
\* holds the value bound to Name, which is the displayed component when it
\* is callable.
C12_DeclaredDefaultExported ==
    \A i \in DOMAIN editedCode :
        (/\ AfterEdit /\ lastRun.stages = AllStages /\ ~lastRun.scope.thrown
         /\ DefaultForms(editedCode) = {i}
         /\ editedCode[i].k \in DefaultDeclKinds) =>
            LET decl == editedCode[i]
                rw == Rewrite(editedCode)
                body == AppendDefaultExport(Transform(rw.processedCode).code,
                                            rw.defaultExportName)
            IN /\ rw.defaultExportName = decl.name
               /\ rw.processedCode[i] = ReKind(decl, PlainKind(decl.k))
               /\ body[Len(body)] = Stmt("assignDefault", decl.name, "", Undefined)
               /\ lastRun.scope.exportsDefault = decl.val
               /\ IsFunction(decl.val) =>
                     (lastRun.kind = "ok" /\ Displayed = decl.val)

C12_Witness ==
    /\ AfterEdit /\ lastRun.kind = "ok" /\ ~EffectsPending
    /\ editedCode = <<ExportDefaultFunction("Widget")>>
    /\ Displayed = Fn("Widget")
    /\ lastRun.scope.exportsDefault = Fn("Widget")

\* The passes that recognise a default-export form, in the order they run:
\* 6.1 function, 6.2 const, 6.3 class, 6.4 identifier.
RecognitionOrder ==
    <<"exportDefaultFunction", "exportDefaultConst", "exportDefaultClass",
      "exportDefaultIdent">>
FirstRecognised(text) ==
    LET r == CHOOSE r \in DOMAIN RecognitionOrder :
                 /\ HasKind(text, RecognitionOrder[r])
                 /\ \A q \in 1..(r - 1) : ~HasKind(text, RecognitionOrder[q])
    IN text[FirstOfKind(text, RecognitionOrder[r])].name

\* C13: when the edited text holds more than one default-export form, the
\* recorded default binding name is the name of the form recognised first.
C13_FirstRecognisedWins ==
    (/\ AfterEdit /\ lastRun.stages # << >>
     /\ Cardinality(DefaultForms(editedCode)) > 1) =>
        Rewrite(editedCode).defaultExportName = FirstRecognised(editedCode)

\* C14: the text the rewriter makes of an edited text holds no import and no
\* export declaration.
C14_NoModuleSyntaxLeft ==
    (AfterEdit /\ lastRun.stages # << >>) =>
        ~HasModuleSyntax(Rewrite(editedCode).processedCode)

\* What a native module system binds for a default import of capability v:
\* its default field, and v itself when it has no default field.
HasDefaultField(v) == DefaultOf(v) # Undefined
NativeDefault(v) == IF HasDefaultField(v) THEN DefaultOf(v) ELSE v

\* C15: after an edited text that begins with an import from a module of
\* the registry ran to its end, the names of the import are bound as a
\* native module system binds them: the default name to the default field
\* (to the capability itself when it has no such field), a named import to
\* the field of its name, a namespace import to the capability.
C15_ImportsBindAsNative ==
    (/\ AfterEdit /\ lastRun.stages = AllStages /\ ~lastRun.scope.thrown
     /\ editedCode # EmptyText
     /\ editedCode[1].k \in {"importMixed", "importNamespace", "importNamed",
                               "importDefault"}
     /\ editedCode[1].arg \in DOMAIN moduleMap) =>
        LET st == editedCode[1]
            cap == moduleMap[st.arg]
            env == lastRun.scope.env
        IN CASE st.k = "importDefault" -> env[st.name] = NativeDefault(cap)
             [] st.k = "importMixed" ->
                    /\ env[st.name] = NativeDefault(cap)
                    /\ env[st.named] = Member(cap, st.named)
             [] st.k = "importNamespace" -> env[st.name] = cap
             [] st.k = "importNamed" -> env[st.name] = Member(cap, st.name)

\* C16: the stages run in the order rewrite, markup compile, execute, and a
\* text the markup compiler rejects ends the recompute after the compile
\* stage: no scope is made, no statement of the text runs (no resolver call,
\* no name bound), and the compiler's message is the diagnostic.
C16_CompileFailureStopsPipeline ==
    /\ lastRun.stages \in {<< >>, <<"rewrite", "compile">>, AllStages}
    /\ (AfterEdit /\ lastRun.stages # << >>) =>
          (lastRun.stages = <<"rewrite", "compile">>
              <=> HasKind(editedCode, "markupUnbalanced"))
    /\ (AfterEdit /\ lastRun.stages = <<"rewrite", "compile">>) =>
          /\ lastRun.scope = NotExecuted
          /\ lastRun.requires = {}
          /\ lastRun.kind = "caught"
          /\ memo.error = Str(SyntaxErrorMessage)
          /\ Displayed = OriginalComponent
          /\ ~EffectsPending => previewError = Str(SyntaxErrorMessage)

C16_Witness ==
    /\ AfterEdit /\ ~EffectsPending
    /\ editedCode = <<ImportDefault("X", "nonexistent-module"), Throw(Err("boom")),
                       MarkupUnbalanced>>
    /\ lastRun.stages = <<"rewrite", "compile">>
    /\ previewError = Str(SyntaxErrorMessage)

\* C17: in every rendered state that follows a successful edit there is no
\* diagnostic: a newly compiled component is never on display together with
\* the diagnostic of an earlier failing edit.
C17_SuccessShowsNoDiagnostic ==
    (~crashed /\ AfterEdit /\ lastRun.kind = "ok") =>
        (Displayed = lastRun.component /\ previewError = Null)

\* The edited text's one default export is `export default Name`, statement
\* i, and the text declares the function Name before it.
ExportsByReference(i) ==
    /\ AfterEdit /\ lastRun.stages = AllStages
    /\ DefaultForms(editedCode) = {i}
    /\ editedCode[i].k = "exportDefaultIdent"
    /\ \E j \in 1..(i - 1) :
          editedCode[j].k = "function" /\ editedCode[j].name = editedCode[i].name

\* C18 as stated: wherever `export default Name` stands in the text, Name is
\* recorded as the default binding name, the statement is removed, and
\* execution returns the value bound to Name.
C18_ReferenceExportedAnywhere ==
    \A i \in DOMAIN editedCode :
        ExportsByReference(i) =>
            /\ Rewrite(editedCode).defaultExportName = editedCode[i].name
            /\ Rewrite(editedCode).processedCode[i] = Comment("")
            /\ lastRun.kind = "ok"
            /\ Displayed = Fn(editedCode[i].name)

\* C18 as amended: `export default Name` is recorded, removed and its value
\* returned by execution when only white space follows it in the text;
\* with another statement after it no name is recorded, only its
\* `export default` prefix is stripped and no default is exported.
C18_TrailingReferenceExported ==
    \A i \in DOMAIN editedCode :
        ExportsByReference(i) =>
            IF i = LastStatement(editedCode, Len(editedCode))
            THEN /\ Rewrite(editedCode).defaultExportName = editedCode[i].name
                 /\ Rewrite(editedCode).processedCode[i] = Comment("")
                 /\ lastRun.kind = "ok"
                 /\ Displayed = Fn(editedCode[i].name)
            ELSE /\ Rewrite(editedCode).defaultExportName = NoName
                 /\ Rewrite(editedCode).processedCode[i] = ReKind(editedCode[i], "expr")
                 /\ lastRun.scope.exportsDefault = Undefined

C18_Witness ==
    /\ ExportsByReference(2) /\ ~EffectsPending
    /\ editedCode = <<FunctionDecl("App"), ExportDefaultIdent("App"), Blank>>
    /\ Displayed = Fn("App")

\* The import rules by number, and a statement after the rules 0..k ran.
ImportRule(k, st) ==
    CASE k = 0 -> Pass0(st) [] k = 1 -> Pass1(st) [] k = 2 -> Pass2(st)
      [] k = 3 -> Pass3(st) [] k = 4 -> Pass4(st) [] k = 5 -> Pass5(st)
RECURSIVE AfterRules(_, _)
AfterRules(k, st) == IF k < 0 THEN st ELSE ImportRule(k, AfterRules(k - 1, st))
RulesRewriting(st) == {k \in 0..5 : AfterRules(k, st) # AfterRules(k - 1, st)}

\* The most specific rule for each import form.
MostSpecificRule(st) ==
    CASE st.k = "importStyle" -> 0
      [] st.k = "importMixed" -> 1
      [] st.k = "importNamespace" -> 2
      [] st.k = "importNamed" -> 3
      [] st.k = "importDefault" -> 4
      [] st.k = "importBare" -> 5
RuledImportKinds ==
    {"importStyle", "importMixed", "importNamespace", "importNamed",
     "importDefault", "importBare"}

\* C19: the import rules run in the order 0..5, and each import declaration
\* of the edited text is rewritten by exactly one of them, the most specific
\* one that matches it: what the rewriter makes of the declaration is what
\* that rule alone makes of it, and no export rule changes it.
C19_OneRulePerImport ==
    \A i \in DOMAIN editedCode :
        (/\ AfterEdit /\ lastRun.stages # << >>
         /\ editedCode[i].k \in RuledImportKinds) =>
            LET st == editedCode[i]
            IN /\ RulesRewriting(st) = {MostSpecificRule(st)}
               /\ RewriteImports(editedCode)[i] = ImportRule(MostSpecificRule(st), st)
               /\ Rewrite(editedCode).processedCode[i] = RewriteImports(editedCode)[i]

C19_Witness ==
    /\ AfterEdit /\ ~EffectsPending
    /\ editedCode = AllFormsText
    /\ lastRun.kind = "ok" /\ Displayed = Fn("Widget")
    /\ Rewrite(editedCode).processedCode[1] = Comment("CSS import removed")

\* C20: each execution inspects only what it assigned itself, so the
\* outcome of a recompute depends on the edited text alone: a recompute of
\* the text that last compiled to a component yields that component again.
C20_SameTextSameOutcome ==
    (AfterEdit /\ memoRan /\ lastOkText # EmptyText /\ editedCode = lastOkText) =>
        (lastRun.kind = "ok" /\ Displayed = lastOkComponent)

\* C27: once every source load has settled, the baseline text and the edited
\* text the last load left are the source of the currently selected example.
C27_LoadedTextIsSelected ==
    (lastEvent = "load" /\ pendingLoads = {}) =>
        (code = Source[example] /\ editedCode = Source[example])

\* C28: in InteractiveFlow the ids of the nodes on the canvas are pairwise
\* distinct, whatever nodes were added and deleted.
C28_NodeIdsDistinct ==
    \A i, j \in DOMAIN interactiveFlow.nodes :
        i # j => interactiveFlow.nodes[i].id # interactiveFlow.nodes[j].id

\* The list without its i-th element.
RemoveAt(s, i) == [k \in 1..(Len(s) - 1) |-> IF k < i THEN s[k] ELSE s[k + 1]]

\* C26: a deleteSelectedNode step with a node selected removes that one node
\* from the list and every edge that has its id as source or target, keeps
\* every other node and edge, and clears the selection; with no node selected
\* the step changes nothing.
C26_DeleteRemovesSelectedOnly ==
    [][InteractiveFlow_deleteSelectedNode =>
          IF interactiveFlow.selectedNode = Null
          THEN interactiveFlow' = interactiveFlow
          ELSE /\ \E i \in DOMAIN interactiveFlow.nodes :
                     /\ interactiveFlow.nodes[i] = interactiveFlow.selectedNode
                     /\ interactiveFlow'.nodes = RemoveAt(interactiveFlow.nodes, i)
               /\ interactiveFlow'.edges =
                     SelectSeq(interactiveFlow.edges,
                         LAMBDA edge :
                             /\ edge.source # interactiveFlow.selectedNode.id
                             /\ edge.target # interactiveFlow.selectedNode.id)
               /\ interactiveFlow'.selectedNode = Null]_vars

\* The nodes and the edges a step appended to the canvas.
AddedNodes == SubSeq(copyPaste'.nodes, Len(copyPaste.nodes) + 1, Len(copyPaste'.nodes))
AddedEdges == SubSeq(copyPaste'.edges, Len(copyPaste.edges) + 1, Len(copyPaste'.edges))

\* The original of the k-th node of a paste is the k-th copied node: they are
\* joined at copy time when both were selected then and an edge led from one
\* to the other.
JoinedAtCopyTime(a, b) ==
    LET t == copyPaste.copyTime
        from == copyPaste.copiedNodesRef[a].id
        to == copyPaste.copiedNodesRef[b].id
    IN from \in t.selected /\ to \in t.selected /\ <<from, to>> \in t.edges

\* C24: a paste leaves the nodes and edges of the canvas as they were and
\* appends new ones; every appended edge runs between two appended nodes, and
\* two appended nodes are joined by an appended edge exactly when their
\* originals were both selected at copy time and joined by an edge then.
C24_PasteKeepsConnections ==
    [][CopyPaste_pasteSelected =>
          /\ SubSeq(copyPaste'.nodes, 1, Len(copyPaste.nodes)) = copyPaste.nodes
          /\ SubSeq(copyPaste'.edges, 1, Len(copyPaste.edges)) = copyPaste.edges
          /\ \A e \in DOMAIN AddedEdges :
                 /\ \E a \in DOMAIN AddedNodes : AddedNodes[a].id = AddedEdges[e].source
                 /\ \E b \in DOMAIN AddedNodes : AddedNodes[b].id = AddedEdges[e].target
          /\ \A a, b \in DOMAIN AddedNodes :
                 (\E e \in DOMAIN AddedEdges :
                      /\ AddedEdges[e].source = AddedNodes[a].id
                      /\ AddedEdges[e].target = AddedNodes[b].id)
                     <=> JoinedAtCopyTime(a, b)]_vars

\* Nodes 1 and 2 were copied with the edge between them, that edge was
\* deleted on the canvas, and a paste made the two copies and their edge.
C24_Witness ==
    /\ Len(copyPaste.nodes) = Len(CopyPaste_initialNodes) + 2
    /\ copyPaste.nodes[4] = [id |-> generateNodeId(1), position |-> <<150, 150>>,
                             selected |-> FALSE]
    /\ \E e \in DOMAIN copyPaste.edges :
           copyPaste.edges[e].source = generateNodeId(1)
    /\ \A e \in DOMAIN copyPaste.edges : copyPaste.edges[e].id # "e1-2"

\* A node made by a paste: its id is none of the initial canvas.
IsPasted(node) ==
    \A i \in DOMAIN CopyPaste_initialNodes : CopyPaste_initialNodes[i].id # node.id

\* C25: no node made by a paste has the position of another node of the canvas.
C25_PastedNodesDoNotOverlap ==
    \A i, j \in DOMAIN copyPaste.nodes :
        (i # j /\ IsPasted(copyPaste.nodes[i])) =>
            copyPaste.nodes[i].position # copyPaste.nodes[j].position

\* C21: a node on the canvas stays in the node list unless a delete step
\* removes it, whatever a running animation does; and whenever no animation
\* runs the nodes sit at a layout computed from the current nodes and edges.
C21_AddedNodeStaysAndIsLaidOut ==
    /\ [][DynamicLayout_deleteSelectedNodes
            \/ Ids(dynamicLayout.nodes) \subseteq Ids(dynamicLayout'.nodes)]_vars
    /\ [](~dynamicLayout.isLayoutingRef =>
             \E direction \in LAYOUT_DIRECTIONS :
                 dynamicLayout.nodes =
                     getLayoutedNodes(dynamicLayout.nodes, dynamicLayout.edges,
                                      direction))

\* C22: whenever no animation runs, the nodes sit at the layout computed for
\* the selected direction.
C22_LaidOutForSelectedDirection ==
    ~dynamicLayout.isLayoutingRef =>
        dynamicLayout.nodes =
            getLayoutedNodes(dynamicLayout.nodes, dynamicLayout.edges,
                             dynamicLayout.direction)

\* C23: in AutoLayout, an animation started by a direction change stops only
\* with the nodes at the layout it was started for, unless the direction is
\* changed again.
C23_AnimationRunsToTarget ==
    [][(/\ autoLayout.timerRef.running
        /\ ~autoLayout'.timerRef.running
        /\ autoLayout'.direction = autoLayout.direction) =>
           autoLayout'.nodes = autoLayout.timerRef.targetNodes]_vars

\* C29: after an edit of a registered example's source that keeps its import
\* lines, every module the executed text asked the resolver for was found.
C29_RegisteredImportsResolve ==
    (/\ AfterEdit /\ memoRan
     /\ \E e \in RegisteredExamples :
            code = Source[e] /\ ImportLines(editedCode) = ImportLines(Source[e])) =>
        /\ \A c \in lastRun.requires : c.ok
        /\ lastRun.kind = "ok"
====
